---------------------------- MODULE Spec2Model ----------------------------
(***************************************************************************)
(* State-machine model of the fairplay match generators:                   *)
(*   - AIMatchGenerator (src/lib/matchGenerator.ts): Singles rotation,     *)
(*     delegated Teams generation through the Groq API and the             *)
(*     deterministic fallback;                                             *)
(*   - the legacy MatchGenerator (src/unnamed/part_001): Singles rotation  *)
(*     and Teams generation with random tie-break and shuffle.             *)
(* A behaviour is one session: the constructor (Init), then a bounded      *)
(* number of generateMatches calls.  Loops advance one iteration per step; *)
(* the code is single-threaded, so nothing else runs between iterations.   *)
(* A player is identified with its position in the roster (ids are         *)
(* unique); players[i] is the skillLevel of player i.                      *)
(***************************************************************************)
EXTENDS Integers, Sequences, FiniteSets

\* ------------------------------------------------------------ bounds
MaxPlayers == 5          \* roster sizes 1..MaxPlayers (AIMatchGenerator)
MaxLegacyPlayers == 3    \* roster sizes 1..MaxLegacyPlayers (legacy class)
MaxSkill == 2            \* skill levels 1..MaxSkill
MaxTeamSize == 2         \* teamSize 0..MaxTeamSize (0 is a non-positive size)
MaxCount == 2            \* numberOfMatches 0..MaxCount per Teams call
MaxCalls == 2            \* generateMatches calls per session

\* Singles is deterministic and cheap: it gets one more match per call, so
\* that a roster of MaxCount players is rotated once past a full cycle.
MaxSinglesCount == MaxCount + 1

VARIABLES
    impl,             \* "AI" (AIMatchGenerator) or "Legacy" (MatchGenerator)
    players,          \* this.players: sequence of skill levels
    mode,             \* this.mode
    teamSize,         \* this.teamSize
    doubleSider,      \* this.doubleSider
    groqApiKey,       \* this.groqApiKey: "" (no credential) or "key"
    playCount,        \* this.playCount
    previousMatches,  \* this.previousMatches (AIMatchGenerator only)
    pc,               \* position of the current generateMatches call
    numberOfMatches,  \* argument of the current call
    matches,          \* the call's local list; the value returned at "returned"
    rotationOffset,   \* the call's local rotation offset (Singles)
    i,                \* the loop index of the call's for loop
    before,           \* history: playCount before the latest generated match
    startCount,       \* history: playCount when the current call started
    startHist,        \* history: Len(previousMatches) when the call started
    calls,            \* history: number of calls started on this session
    generated,        \* history: matches generated on this session, all calls
    path,             \* history: how the current batch is being produced
    response,         \* history: the latest reply parseGroqResponse was given
    carried,          \* history: playCount of the generator the page replaced
    pagePlayers,      \* Home's players state: the names, in roster order
    error,            \* Home's error state: the message shown, "" for none
    pending,          \* Home: the generateMatches handlers suspended at await
    generatedMatches  \* Home's generatedMatches state: the batch displayed

vars == << impl, players, mode, teamSize, doubleSider, groqApiKey, playCount,
           previousMatches, pc, numberOfMatches, matches, rotationOffset, i,
           before, startCount, startHist, calls, generated, path, response,
           carried, pagePlayers, error, pending, generatedMatches >>

\* What overlapping clicks on Generate share: the suspended handlers and the
\* batch displayed.  A batch is identified by the click that started it.
clicks == << pending, generatedMatches >>

config == << impl, players, mode, teamSize, doubleSider, groqApiKey >>

\* ------------------------------------------------------------ helpers
Undefined == 0           \* the absent player (JavaScript undefined)

Min(a, b) == IF a < b THEN a ELSE b
Max(a, b) == IF a > b THEN a ELSE b
Abs(x) == IF x < 0 THEN -x ELSE x

Range(s) == { s[k] : k \in 1..Len(s) }

RECURSIVE SeqSum(_)
SeqSum(s) == IF s = << >> THEN 0 ELSE Head(s) + SeqSum(Tail(s))

PlayerIds == 1..Len(players)
Roster == [ k \in 1..Len(players) |-> k ]

\* Array.prototype.slice(0, end), negative end counting from the back.
SliceTo(s, end) ==
    LET e == IF end < 0 THEN Max(Len(s) + end, 0) ELSE Min(end, Len(s))
    IN  SubSeq(s, 1, e)

\* Array.prototype.sort with a consistent comparator (the sort is stable):
\* << a, b >> \in order says that the comparator puts a strictly before b.
StableSort(s, order) ==
    LET n == Len(s)
        Prec(q, p) == \/ << s[q], s[p] >> \in order
                      \/ (<< s[p], s[q] >> \notin order /\ q < p)
        Rank(p) == Cardinality({ q \in 1..n : Prec(q, p) }) + 1
    IN  [ r \in 1..n |-> s[CHOOSE p \in 1..n : Rank(p) = r] ]

\* Mutant of rotateArray: rotates to the right instead of to the left.
rotateArrayRight(array, offset) ==
    IF Len(array) = 0 THEN array
    ELSE LET normalizedOffset == offset % Len(array)
         IN  SubSeq(array, Len(array) - normalizedOffset + 1, Len(array))
               \o SubSeq(array, 1, Len(array) - normalizedOffset)

\* rotateArray(array, offset)
rotateArray(array, offset) ==
    IF Len(array) = 0 THEN array
    ELSE LET normalizedOffset == offset % Len(array)
         IN  SubSeq(array, normalizedOffset + 1, Len(array))
               \o SubSeq(array, 1, normalizedOffset)

\* Mutant of requiredPlayers: no extra player is selected for the double-sider.
requiredPlayersWithoutDoubleSider == teamSize * 2

\* requiredPlayers of generateSingleTeamMatch / generateTeamsMatch
requiredPlayers == IF doubleSider THEN (teamSize * 2) + 1 ELSE teamSize * 2

\* ------------------------------------------- AIMatchGenerator: selection
\* Mutant of SkillDistance: the signed difference, not its absolute value.
SkillDistanceSigned(a) == players[a] * Len(players) - SeqSum(players)

\* The comparator of selectPlayersForMatch.  |skill - avg| is compared
\* exactly, scaled by the roster size: avg = SeqSum(players) / Len(players).
SkillDistance(a) == Abs(players[a] * Len(players) - SeqSum(players))

\* Mutant of FairnessBefore: the play counts are not compared.
FairnessBeforeSkillOnly(a, b) == SkillDistance(a) < SkillDistance(b)

FairnessBefore(a, b) ==
    IF playCount[a] = playCount[b]
    THEN SkillDistance(a) < SkillDistance(b)
    ELSE playCount[a] < playCount[b]

ByFairness == { c \in PlayerIds \X PlayerIds : FairnessBefore(c[1], c[2]) }

\* Mutant of selectPlayersForMatch: the roster is not sorted.
selectPlayersInRosterOrder(required) ==
    SliceTo(Roster, Min(required, Len(Roster)))

selectPlayersForMatch(required) ==
    LET playersByFairness == StableSort(Roster, ByFairness)
        selectedCount == Min(required, Len(playersByFairness))
    IN  SliceTo(playersByFairness, selectedCount)

\* ------------------------------------------- AIMatchGenerator: partition
\* Mutant of SkillDescBefore: ascending skill.
SkillAscBefore(a, b) == players[a] < players[b]

SkillDescBefore(a, b) == players[a] > players[b]

BySkillDesc == { c \in PlayerIds \X PlayerIds : SkillDescBefore(c[1], c[2]) }

\* [...selectedPlayers].sort((a, b) => b.skillLevel - a.skillLevel)[0]
ChooseDoubleSider(selected) ==
    IF selected = << >> THEN Undefined
    ELSE StableSort(selected, BySkillDesc)[1]

\* Mutant of Distribute: the first teamSize players to teamA, the rest to
\* teamB.
DistributeInBlocks(sortedPlayers, index, teamA, teamB) ==
    << SubSeq(sortedPlayers, 1, Min(teamSize, Len(sortedPlayers))),
       SubSeq(sortedPlayers, Min(teamSize, Len(sortedPlayers)) + 1,
              Len(sortedPlayers)) >>

\* The forEach of generateSingleTeamMatch: even index to teamA unless full,
\* odd index to teamB unless full.  Returns << teamA, teamB >>.
RECURSIVE Distribute(_, _, _, _)
Distribute(sortedPlayers, index, teamA, teamB) ==
    IF index > Len(sortedPlayers) THEN << teamA, teamB >>
    ELSE LET player == sortedPlayers[index]
             toA == IF (index - 1) % 2 = 0
                    THEN Len(teamA) < teamSize
                    ELSE ~(Len(teamB) < teamSize)
         IN  IF toA
             THEN Distribute(sortedPlayers, index + 1, Append(teamA, player), teamB)
             ELSE Distribute(sortedPlayers, index + 1, teamA, Append(teamB, player))

\* Mutant of Increment: the double-sider is counted once.
IncrementAlwaysOne(player, doubleSiderPlayer) == 1

\* +2 for the double-sider, +1 for the others (the forEach over selected).
Increment(player, doubleSiderPlayer) ==
    IF doubleSider /\ player = doubleSiderPlayer THEN 2 ELSE 1

\* Mutant of UpdatePlayCount: the play counts are never updated.
UpdatePlayCountNever(count, playing, doubleSiderPlayer) == count

\* Mutant of UpdatePlayCount: the count of a player who sits out starts over.
UpdatePlayCountResetIdle(count, playing, doubleSiderPlayer) ==
    [ p \in DOMAIN count |->
        IF p \in Range(playing)
        THEN count[p] + Increment(p, doubleSiderPlayer)
        ELSE 0 ]

UpdatePlayCount(count, playing, doubleSiderPlayer) ==
    [ p \in DOMAIN count |->
        IF p \in Range(playing)
        THEN count[p] + Increment(p, doubleSiderPlayer)
        ELSE count[p] ]

\* playersOut: the roster without the selected players, in roster order.
PlayersOut(selected) ==
    LET NotSelected(p) == p \notin Range(selected)
    IN  SelectSeq(Roster, NotSelected)

\* generateSingleTeamMatch(matchNumber), with the toss outcome as a parameter.
generateSingleTeamMatch(matchNumber, toss) ==
    LET selectedPlayers == selectPlayersForMatch(requiredPlayers)
        doubleSiderPlayer ==
            IF doubleSider THEN ChooseDoubleSider(selectedPlayers) ELSE Undefined
        NotDS(p) == p # doubleSiderPlayer
        regularPlayers ==
            IF doubleSider THEN SelectSeq(selectedPlayers, NotDS) ELSE selectedPlayers
        sortedPlayers == StableSort(regularPlayers, BySkillDesc)
        teams == Distribute(sortedPlayers, 1, << >>, << >>)
        teamA == IF doubleSider THEN Append(teams[1], doubleSiderPlayer) ELSE teams[1]
        teamB == IF doubleSider THEN Append(teams[2], doubleSiderPlayer) ELSE teams[2]
    IN  [ id |-> matchNumber,
          playersPlaying |-> selectedPlayers,
          teamA |-> teamA,
          teamB |-> teamB,
          doubleSider |-> doubleSiderPlayer,
          playersOut |-> PlayersOut(selectedPlayers),
          mode |-> mode,
          tossWinner |-> toss ]

\* ------------------------------------------- AIMatchGenerator: delegation
\* A parsed reply of the external service is a sequence of matchData
\* records.  Ids are roster positions; UnknownId is an id of no player.
UnknownId == Len(players) + 1

IdsFromTo(a, b) == [ k \in 1..Max(b - a + 1, 0) |-> a + k - 1 ]

\* The kinds of matchData the model lets the service return:
\*   "noDS"        teams of teamSize players, no doubleSider field
\*   "withDS"      teams of teamSize players plus a double-sider on both
\*   "dsField"     teams of teamSize players, the double-sider named in the
\*                 doubleSider field only
\*   "otherToss"   as "noDS", with a tossWinner that is neither "A" nor "B"
\*   "misnumbered" as "noDS", with a matchNumber that is not its position
\*   "malformed"   an entry without its teamA array (teamA.map throws)
\* Ids above the roster size are unknown ids.
Templates == {"noDS", "withDS", "dsField", "otherToss", "misnumbered", "malformed"}

MatchDataOf(template, position) ==
    LET ds == (2 * teamSize) + 1
        withDS == template = "withDS"
        namesDS == template \in {"withDS", "dsField"}
        used == IF namesDS THEN ds ELSE 2 * teamSize
    IN  [ matchNumber |-> IF template = "misnumbered" THEN position + 1 ELSE position,
          hasTeams |-> template # "malformed",
          teamA |-> IdsFromTo(1, teamSize) \o (IF withDS THEN << ds >> ELSE << >>),
          teamB |-> IdsFromTo(teamSize + 1, 2 * teamSize)
                      \o (IF withDS THEN << ds >> ELSE << >>),
          doubleSider |-> IF namesDS THEN ds ELSE Undefined,
          playersOut |-> IdsFromTo(used + 1, Len(players)),
          tossWinner |-> IF template = "otherToss" THEN "X" ELSE "A" ]

\* ids.map(id => this.players.find(p => p.id === id)).filter(Boolean)
FindPlayers(ids) ==
    LET Known(id) == id \in PlayerIds
    IN  SelectSeq(ids, Known)

\* Array.from(new Set(list)): first occurrences, in order.
RECURSIVE Dedupe(_)
Dedupe(list) ==
    IF list = << >> THEN << >>
    ELSE LET init == Dedupe(SubSeq(list, 1, Len(list) - 1))
             last == list[Len(list)]
         IN  IF last \in Range(init) THEN init ELSE Append(init, last)

\* The body of the for loop of parseGroqResponse for one well-formed entry:
\* the Match it builds.
ParseMatch(matchData) ==
    LET teamAPlayers == FindPlayers(matchData.teamA)
        teamBPlayers == FindPlayers(matchData.teamB)
        doubleSiderPlayer ==
            IF matchData.doubleSider # Undefined /\ matchData.doubleSider \in PlayerIds
            THEN matchData.doubleSider ELSE Undefined
    IN  [ id |-> matchData.matchNumber,
          playersPlaying |-> Dedupe(teamAPlayers \o teamBPlayers),
          teamA |-> teamAPlayers,
          teamB |-> teamBPlayers,
          doubleSider |-> doubleSiderPlayer,
          playersOut |-> FindPlayers(matchData.playersOut),
          mode |-> mode,
          tossWinner |-> matchData.tossWinner ]

\* parseGroqResponse over a whole reply, entry by entry: the state
\* << playCount, previousMatches, matches, threw >> after the loop.  An entry
\* that throws ends the loop; what earlier entries wrote stays written.
RECURSIVE ParseFrom(_, _, _, _, _)
ParseFrom(reply, k, count, history, parsed) ==
    IF k > Len(reply) THEN << count, history, parsed, FALSE >>
    ELSE IF ~reply[k].hasTeams THEN << count, history, parsed, TRUE >>
    ELSE LET match == ParseMatch(reply[k])
         IN  ParseFrom(reply, k + 1,
                       UpdatePlayCount(count, match.playersPlaying, match.doubleSider),
                       Append(history, match), Append(parsed, match))

parseGroqResponse(reply) == ParseFrom(reply, 1, playCount, previousMatches, << >>)

\* ------------------------------------------- legacy MatchGenerator
\* Mutant of Slice: a positive start is taken one element too early.
SliceOneEarly(s, start, end) ==
    LET e == IF end < 0 THEN Max(Len(s) + end, 0) ELSE Min(end, Len(s))
    IN  SubSeq(s, Max(start, 1), e)

\* Array.prototype.slice(start, end) for 0 <= start.
Slice(s, start, end) ==
    LET e == IF end < 0 THEN Max(Len(s) + end, 0) ELSE Min(end, Len(s))
    IN  SubSeq(s, start + 1, e)

\* All orderings of the elements of a sequence.
Orderings(s) ==
    { [ k \in 1..Len(s) |-> s[f[k]] ] :
        f \in { g \in [1..Len(s) -> 1..Len(s)] : Range(g) = 1..Len(s) } }

\* Mutant of LegacySelections: the roster is shuffled, not sorted.
LegacySelectionsUnsorted(required) ==
    { SliceTo(o, Min(required, Len(players))) : o \in Orderings(Roster) }

\* selectPlayersForMatch of the legacy class: the comparator answers at
\* random for equal play counts, so the sorted roster is any ordering that
\* is ascending in play count.
LegacySelections(required) ==
    LET Ascending(o) == \A k \in 1..(Len(o) - 1) : playCount[o[k]] <= playCount[o[k + 1]]
        selectedCount == Min(required, Len(players))
    IN  { SliceTo(o, selectedCount) : o \in { q \in Orderings(Roster) : Ascending(q) } }

\* shuffleArray: Fisher-Yates with Math.random reaches every permutation.
shuffleArray(array) == Orderings(array)

\* generateTeamsMatch(matchNumber) for one outcome of the random choices.
generateTeamsMatch(matchNumber, selectedPlayers, shuffledPlayers, toss) ==
    LET doubleSiderPlayer ==
            IF doubleSider /\ shuffledPlayers # << >>
            THEN shuffledPlayers[Len(shuffledPlayers)] ELSE Undefined
        regularPlayers == Slice(shuffledPlayers, 0, -1)
        teamA == IF doubleSider
                 THEN Append(Slice(regularPlayers, 0, teamSize), doubleSiderPlayer)
                 ELSE Slice(shuffledPlayers, 0, teamSize)
        teamB == IF doubleSider
                 THEN Append(Slice(regularPlayers, teamSize, Len(regularPlayers)),
                             doubleSiderPlayer)
                 ELSE Slice(shuffledPlayers, teamSize, requiredPlayers)
    IN  [ id |-> matchNumber,
          playersPlaying |-> selectedPlayers,
          teamA |-> teamA,
          teamB |-> teamB,
          doubleSider |-> doubleSiderPlayer,
          playersOut |-> PlayersOut(selectedPlayers),
          mode |-> mode,
          tossWinner |-> toss ]

\* ------------------------------------------------------------ Init
Rosters == UNION { [1..n -> 1..MaxSkill] : n \in 1..MaxPlayers }

\* The legacy class never reads skillLevel: its rosters keep one skill level.
\* They are shorter, its random choices making many outcomes per match.
LegacyRosters == UNION { [1..n -> {1}] : n \in 1..MaxLegacyPlayers }

\* Rosters of the sessions whose external call may answer.
DelegatedRosters ==
    { [ k \in 1..n |-> ((k - 1) % MaxSkill) + 1 ] : n \in 2..MaxPlayers }

\* useState<Match[]>([]): nothing is displayed before the first batch.
NoBatch == [ click |-> 0, numberOfMatches |-> 0 ]

InitSession ==
    /\ playCount = [ p \in 1..Len(players) |-> 0 ]
    /\ previousMatches = << >>
    /\ pc = "idle"
    /\ numberOfMatches = 0
    /\ matches = << >>
    /\ rotationOffset = 0
    /\ i = 0
    /\ before = playCount
    /\ startCount = playCount
    /\ startHist = 0
    /\ calls = 0
    /\ generated = 0
    /\ path = "none"
    /\ response = << >>
    /\ carried = playCount
    /\ pagePlayers = << >>
    /\ error = ""
    /\ pending = {}
    /\ generatedMatches = NoBatch

\* new AIMatchGenerator(...) or new MatchGenerator(...); teamSize defaults
\* to 2 and doubleSider to false, which is what a Singles session is given.
Init ==
    /\ impl \in {"AI", "Legacy"}
    /\ players \in (IF impl = "AI" THEN Rosters ELSE LegacyRosters)
    /\ mode \in {"Singles", "Teams"}
    /\ teamSize \in 0..MaxTeamSize
    /\ doubleSider \in BOOLEAN
    /\ (mode = "Singles" => teamSize = 2 /\ doubleSider = FALSE)
    /\ groqApiKey \in {"", "key"}
    /\ (mode = "Singles" \/ impl = "Legacy" => groqApiKey = "")
    /\ InitSession

InitDelegated ==
    /\ impl = "AI"
    /\ players \in DelegatedRosters
    /\ mode = "Teams"
    /\ teamSize \in 1..MaxTeamSize
    /\ doubleSider \in BOOLEAN
    /\ groqApiKey \in {"", "key"}
    /\ InitSession

\* --------------------------------------------------- generateMatches
CanCall == pc \in {"idle", "returned"} /\ calls < MaxCalls

BeginCall(n) ==
    /\ numberOfMatches' = n
    /\ matches' = << >>
    /\ rotationOffset' = 0
    /\ i' = 0
    /\ startCount' = playCount
    /\ startHist' = Len(previousMatches)
    /\ calls' = calls + 1

\* The for loop of the running call ends: return matches.
Return ==
    /\ pc' = "returned"
    /\ UNCHANGED << config, clicks, response, carried, pagePlayers, error,
                    playCount, previousMatches, numberOfMatches, matches,
                    rotationOffset, i, before, startCount, startHist, calls,
                    generated, path >>

\* Mutant of CallSingles: Singles mode goes through the external service too.
CallSinglesThroughService(n) ==
    /\ CanCall /\ impl = "AI" /\ mode = "Singles"
    /\ BeginCall(n)
    /\ pc' = "awaiting"
    /\ path' = "delegated"
    /\ UNCHANGED << config, clicks, response, carried, pagePlayers, error,
                    playCount, previousMatches, before, generated >>

\* AIMatchGenerator.generateMatches in Singles mode: enters the loop of
\* generateSinglesMatches with a fresh rotationOffset.
CallSingles(n) ==
    /\ CanCall /\ impl = "AI" /\ mode = "Singles"
    /\ BeginCall(n)
    /\ pc' = "singles"
    /\ path' = "singles"
    /\ UNCHANGED << config, clicks, response, carried, pagePlayers, error,
                    playCount, previousMatches, before, generated >>

\* One iteration of the loop of generateSinglesMatches.
SinglesStep ==
    /\ pc = "singles" /\ i < numberOfMatches
    /\ LET rotatedPlayers == rotateArray(Roster, rotationOffset)
           match == [ id |-> i + 1,
                      playersPlaying |-> rotatedPlayers,
                      playerSequence |-> rotatedPlayers,
                      playersOut |-> << >>,
                      mode |-> mode ]
       IN  /\ before' = playCount
           /\ playCount' = [ p \in DOMAIN playCount |-> playCount[p] + 1 ]
           /\ matches' = Append(matches, match)
           /\ previousMatches' = Append(previousMatches, match)
           /\ rotationOffset' = (rotationOffset + 1) % Len(players)
           /\ i' = i + 1
           /\ generated' = generated + 1
    /\ UNCHANGED << config, clicks, response, carried, pagePlayers, error,
                    pc, numberOfMatches, startCount, startHist, calls, path >>

SinglesReturn ==
    /\ pc = "singles" /\ ~(i < numberOfMatches)
    /\ Return

\* Mutant of CallTeams: building the request empties the history.
CallTeamsClearingHistory(n) ==
    /\ CanCall /\ impl = "AI" /\ mode = "Teams"
    /\ BeginCall(n)
    /\ pc' = "awaiting"
    /\ path' = "delegated"
    /\ previousMatches' = << >>
    /\ UNCHANGED << config, clicks, response, carried, pagePlayers, error,
                    playCount, before, generated >>

\* AIMatchGenerator.generateMatches in Teams mode: generateTeamsMatchesWithAI
\* builds the prompt (reads only) and awaits callGroqAPI.
CallTeams(n) ==
    /\ CanCall /\ impl = "AI" /\ mode = "Teams"
    /\ BeginCall(n)
    /\ pc' = "awaiting"
    /\ path' = "delegated"
    /\ UNCHANGED << config, clicks, response, carried, pagePlayers, error,
                    playCount, previousMatches, before, generated >>

\* Mutant of EnterFallback: the catch block rethrows instead of falling back.
EnterFallbackRethrow ==
    /\ pc' = "rejected"
    /\ path' = "fallback"
    /\ matches' = << >>
    /\ i' = 0

\* The catch block of generateTeamsMatchesWithAI: start the fallback loop.
EnterFallback ==
    /\ pc' = "fallback"
    /\ path' = "fallback"
    /\ matches' = << >>
    /\ i' = 0

\* fetch rejects (transport error, timeout): the await throws inside the try.
FetchRejects ==
    /\ pc = "awaiting"
    /\ EnterFallback
    /\ UNCHANGED << config, clicks, response, carried, pagePlayers, error,
                    playCount, previousMatches, numberOfMatches,
                    rotationOffset, before, startCount, startHist, calls, generated >>

\* Mutant of HttpNotOk: the error escapes the try and rejects the call.
HttpNotOkRejects ==
    /\ pc = "awaiting"
    /\ pc' = "rejected"
    /\ UNCHANGED << config, clicks, response, carried, pagePlayers, error,
                    playCount, previousMatches, numberOfMatches, matches, i,
                    rotationOffset, before, startCount, startHist, calls,
                    generated, path >>

\* !response.ok: callGroqAPI throws 'Groq API error'.  A request without a
\* credential is answered this way, or not at all.
HttpNotOk ==
    /\ pc = "awaiting"
    /\ EnterFallback
    /\ UNCHANGED << config, clicks, response, carried, pagePlayers, error,
                    playCount, previousMatches, numberOfMatches,
                    rotationOffset, before, startCount, startHist, calls, generated >>

\* response.json(), data.choices[0].message.content or JSON.parse throws, or
\* the parsed object has no iterable matches (the for-of throws at once).
BodyUnparsable ==
    /\ pc = "awaiting" /\ groqApiKey # ""
    /\ EnterFallback
    /\ UNCHANGED << config, clicks, response, carried, pagePlayers, error,
                    playCount, previousMatches, numberOfMatches,
                    rotationOffset, before, startCount, startHist, calls, generated >>

\* callGroqAPI resolves with a parsed object and parseGroqResponse runs over
\* it.  If no entry throws the matches are returned; otherwise the catch
\* block starts the fallback from the state the parse left.
ResponseParsed(reply) ==
    /\ pc = "awaiting" /\ groqApiKey # ""
    /\ \E r \in { parseGroqResponse(reply) } :
         /\ playCount' = r[1]
         /\ previousMatches' = r[2]
         /\ generated' = generated + Len(r[3])
         /\ IF r[4]
            THEN EnterFallback
            ELSE /\ pc' = "returned"
                 /\ matches' = r[3]
                 /\ i' = i
                 /\ path' = "delegated"
    /\ response' = reply
    /\ UNCHANGED << config, clicks, carried, pagePlayers, error, numberOfMatches, rotationOffset,
                    before, startCount, startHist, calls >>

\* Mutant of FallbackStep: the toss winner is listed as teamA.
FallbackStepTossWinnerFirst ==
    /\ pc = "fallback" /\ i < numberOfMatches
    /\ \E toss \in {"A", "B"} :
         \E drawn \in { generateSingleTeamMatch(i + 1, toss) } :
           \E match \in { IF toss = "A" THEN drawn
                          ELSE [ drawn EXCEPT !.teamA = drawn.teamB,
                                              !.teamB = drawn.teamA ] } :
             /\ before' = playCount
             /\ playCount' = UpdatePlayCount(playCount, match.playersPlaying,
                                             match.doubleSider)
             /\ matches' = Append(matches, match)
             /\ previousMatches' = Append(previousMatches, match)
             /\ i' = i + 1
             /\ generated' = generated + 1
    /\ UNCHANGED << config, clicks, response, carried, pagePlayers, error,
                    pc, numberOfMatches, rotationOffset, startCount,
                    startHist, calls, path >>

\* One iteration of the loop of generateTeamsMatchesFallback.
FallbackStep ==
    /\ pc = "fallback" /\ i < numberOfMatches
    /\ \E toss \in {"A", "B"} :
         \E match \in { generateSingleTeamMatch(i + 1, toss) } :
             /\ before' = playCount
             /\ playCount' = UpdatePlayCount(playCount, match.playersPlaying,
                                             match.doubleSider)
             /\ matches' = Append(matches, match)
             /\ previousMatches' = Append(previousMatches, match)
             /\ i' = i + 1
             /\ generated' = generated + 1
    /\ UNCHANGED << config, clicks, response, carried, pagePlayers, error,
                    pc, numberOfMatches, rotationOffset, startCount,
                    startHist, calls, path >>

FallbackReturn ==
    /\ pc = "fallback" /\ ~(i < numberOfMatches)
    /\ Return

\* MatchGenerator.generateMatches (legacy): a synchronous loop.
CallLegacy(n) ==
    /\ CanCall /\ impl = "Legacy"
    /\ BeginCall(n)
    /\ pc' = "legacy"
    /\ path' = "legacy"
    /\ UNCHANGED << config, clicks, response, carried, pagePlayers, error,
                    playCount, previousMatches, before, generated >>

\* One iteration of the legacy loop in Singles mode: generateSinglesMatch.
LegacySinglesStep ==
    /\ pc = "legacy" /\ mode = "Singles" /\ i < numberOfMatches
    /\ LET rotatedPlayers == rotateArray(Roster, rotationOffset)
           match == [ id |-> i + 1,
                      playersPlaying |-> rotatedPlayers,
                      playerSequence |-> rotatedPlayers,
                      playersOut |-> << >>,
                      mode |-> mode ]
       IN  /\ before' = playCount
           /\ playCount' = [ p \in DOMAIN playCount |-> playCount[p] + 1 ]
           /\ matches' = Append(matches, match)
           /\ rotationOffset' = (rotationOffset + 1) % Len(players)
           /\ i' = i + 1
           /\ generated' = generated + 1
    /\ UNCHANGED << config, clicks, response, carried, pagePlayers, error,
                    previousMatches, pc, numberOfMatches, startCount,
                    startHist, calls, path >>

\* One iteration of the legacy loop in Teams mode: generateTeamsMatch.  The
\* list is only returned, never read; of it the model keeps the latest
\* match, and i counts the matches pushed.
LegacyTeamsStep ==
    /\ pc = "legacy" /\ mode = "Teams" /\ i < numberOfMatches
    /\ \E selectedPlayers \in LegacySelections(requiredPlayers) :
         \E shuffledPlayers \in shuffleArray(selectedPlayers) :
           \E toss \in {"A", "B"} :
             \E match \in { generateTeamsMatch(i + 1, selectedPlayers,
                                               shuffledPlayers, toss) } :
                 /\ before' = playCount
                 /\ playCount' = UpdatePlayCount(playCount, selectedPlayers,
                                                 match.doubleSider)
                 /\ matches' = << match >>
                 /\ i' = i + 1
                 /\ generated' = generated + 1
    /\ UNCHANGED << config, clicks, response, carried, pagePlayers, error,
                    previousMatches, pc, numberOfMatches, rotationOffset,
                    startCount, startHist, calls, path >>

LegacyReturn ==
    /\ pc = "legacy" /\ ~(i < numberOfMatches)
    /\ Return

\* ------------------------------------------- Home (src/app/page.tsx)
Null == "null"

\* Mutant of validateInputs: the roster is not compared with requiredPlayers.
validateInputsWithoutRosterCheck(n) ==
    IF Len(players) < 2 THEN "At least 2 players are required"
    ELSE IF mode = "Teams" /\ teamSize < 1 THEN "Team size must be at least 1"
    ELSE IF n < 1 THEN "Number of matches must be at least 1"
    ELSE Null

\* validateInputs(): the error message, or null.
validateInputs(n) ==
    IF Len(players) < 2 THEN "At least 2 players are required"
    ELSE IF mode = "Teams" /\ teamSize < 1 THEN "Team size must be at least 1"
    ELSE IF mode = "Teams" /\ Len(players) < requiredPlayers
         THEN "Need at least requiredPlayers players"
    ELSE IF n < 1 THEN "Number of matches must be at least 1"
    ELSE Null

\* Home.generateMatches (the Generate button) with numberOfMatches = n.  If
\* validateInputs answers a message, it is shown and nothing else happens.
\* Otherwise the message is cleared, a new AIMatchGenerator is constructed
\* from the page's players, mode, teamSize and doubleSider, and its
\* generateMatches is awaited.  The generator of the previous click is
\* dropped; carried remembers the play counts it had.
PageGenerate(n) ==
    /\ CanCall /\ impl = "AI"
    /\ \E validationError \in { validateInputs(n) } :
         IF validationError # Null
         THEN /\ error' = validationError
              /\ UNCHANGED << config, clicks, response, carried, pagePlayers, playCount,
                              previousMatches, pc, numberOfMatches, matches,
                              rotationOffset, i, before, startCount, startHist,
                              calls, generated, path >>
         ELSE /\ error' = ""
              /\ carried' = playCount
              /\ playCount' = [ p \in 1..Len(players) |-> 0 ]
              /\ previousMatches' = << >>
              /\ numberOfMatches' = n
              /\ matches' = << >>
              /\ rotationOffset' = 0
              /\ i' = 0
              /\ before' = playCount'
              /\ startCount' = playCount'
              /\ startHist' = 0
              /\ calls' = calls + 1
              /\ generated' = 0
              /\ pc' = IF mode = "Singles" THEN "singles" ELSE "awaiting"
              /\ path' = IF mode = "Singles" THEN "singles" ELSE "delegated"
              /\ UNCHANGED << config, clicks, response, pagePlayers >>

\* ------------------------------------------- the roster of the page
\* A string is a sequence of characters; these are the characters typed.
MaxInput == 3            \* typed strings of 0..MaxInput characters
MaxPagePlayers == 2      \* the page's roster holds at most this many names

Chars == {"a", "A", " ", ","}

Inputs == UNION { [1..n -> Chars] : n \in 0..MaxInput }

\* String.prototype.trim
trim(str) ==
    LET inked == { k \in 1..Len(str) : str[k] # " " }
    IN  IF inked = {} THEN << >>
        ELSE SubSeq(str, CHOOSE lo \in inked : \A k \in inked : lo <= k,
                         CHOOSE hi \in inked : \A k \in inked : k <= hi)

\* String.prototype.toLowerCase
toLowerCase(str) == [ k \in 1..Len(str) |-> IF str[k] = "A" THEN "a" ELSE str[k] ]

\* String.prototype.split(',')
RECURSIVE split(_)
split(str) ==
    LET commas == { k \in 1..Len(str) : str[k] = "," }
    IN  IF commas = {} THEN << str >>
        ELSE LET c == CHOOSE lo \in commas : \A k \in commas : lo <= k
             IN  << SubSeq(str, 1, c - 1) >> \o split(SubSeq(str, c + 1, Len(str)))

\* players.some(p => p.name.toLowerCase() === name.toLowerCase())
NameTaken(name) ==
    \E k \in 1..Len(pagePlayers) : toLowerCase(pagePlayers[k]) = toLowerCase(name)

\* PlayerInput.handleAddPlayer and Home.addPlayer: the typed playerName is
\* passed on as typed; the name stored is the trimmed one.
addPlayer(name) ==
    /\ trim(name) # << >>
    /\ Len(pagePlayers) < MaxPagePlayers
    /\ pagePlayers' = IF trim(name) # << >> /\ ~NameTaken(name)
                      THEN Append(pagePlayers, trim(name))
                      ELSE pagePlayers
    /\ UNCHANGED << config, clicks, playCount, previousMatches, pc, numberOfMatches,
                    matches, rotationOffset, i, before, startCount, startHist,
                    calls, generated, path, response, carried, error >>

\* PlayerInput.handleAddFromList and Home.addPlayersFromList.
addPlayersFromList(playerList) ==
    /\ trim(playerList) # << >>
    /\ LET pieces == split(playerList)
           trimmed == [ k \in 1..Len(pieces) |-> trim(pieces[k]) ]
           NonEmpty(name) == name # << >>
           names == SelectSeq(trimmed, NonEmpty)
           Free(name) == name # << >> /\ ~NameTaken(name)
           uniqueNames == SelectSeq(names, Free)
       IN  /\ Len(pagePlayers) + Len(uniqueNames) <= MaxPagePlayers
           /\ pagePlayers' = pagePlayers \o uniqueNames
    /\ UNCHANGED << config, clicks, playCount, previousMatches, pc, numberOfMatches,
                    matches, rotationOffset, i, before, startCount, startHist,
                    calls, generated, path, response, carried, error >>

\* Home.removePlayer: ids are unique, so the player at one position goes.
removePlayer(position) ==
    /\ position \in 1..Len(pagePlayers)
    /\ pagePlayers' = [ k \in 1..(Len(pagePlayers) - 1) |->
                          IF k < position THEN pagePlayers[k]
                          ELSE pagePlayers[k + 1] ]
    /\ UNCHANGED << config, clicks, playCount, previousMatches, pc, numberOfMatches,
                    matches, rotationOffset, i, before, startCount, startHist,
                    calls, generated, path, response, carried, error >>

\* Replies of at most MaxReply entries: the entries of a reply are of one
\* kind, and the last one may be malformed (a reply cut short).
MaxReply == 2

Replies ==
    UNION { { [ k \in 1..n |->
                  MatchDataOf(IF cut /\ k = n THEN "malformed" ELSE t, k) ] :
              t \in Templates, cut \in BOOLEAN } :
            n \in 0..MaxReply }

\* Sessions on the deterministic paths: Singles, the legacy class, and the
\* AI class whose external call fails every time.
Next ==
    \/ \E n \in 0..MaxSinglesCount : CallSingles(n)
    \/ SinglesStep
    \/ SinglesReturn
    \/ \E n \in 0..MaxCount : CallTeams(n)
    \/ FetchRejects
    \/ HttpNotOk
    \/ BodyUnparsable
    \/ FallbackStep
    \/ FallbackReturn
    \/ \E n \in 0..MaxSinglesCount : CallLegacy(n)
    \/ LegacySinglesStep
    \/ LegacyTeamsStep
    \/ LegacyReturn

Spec == Init /\ [][Next]_vars

\* Teams sessions of the AI class on full rosters with a wider range of
\* skill levels, without a credential: every batch comes from the fallback.
MaxWideSkill == 3        \* skill levels 1..MaxWideSkill of these sessions

InitSkills ==
    /\ impl = "AI"
    /\ players \in [1..MaxPlayers -> 1..MaxWideSkill]
    /\ mode = "Teams"
    /\ teamSize \in 1..MaxTeamSize
    /\ doubleSider \in BOOLEAN
    /\ groqApiKey = ""
    /\ InitSession

NextSkills ==
    \/ \E n \in 0..MaxCount : CallTeams(n)
    \/ FetchRejects
    \/ HttpNotOk
    \/ FallbackStep
    \/ FallbackReturn

SpecSkills == InitSkills /\ [][NextSkills]_vars

\* Teams sessions of the AI class whose external call may fail or answer.
NextDelegated ==
    \/ \E n \in 0..MaxCount : CallTeams(n)
    \/ FetchRejects
    \/ HttpNotOk
    \/ BodyUnparsable
    \/ \E reply \in Replies : ResponseParsed(reply)
    \/ FallbackStep
    \/ FallbackReturn

SpecDelegated == InitDelegated /\ [][NextDelegated]_vars

\* Sessions on every path: Singles, the legacy class, and Teams sessions of
\* the AI class whose external call may fail or answer.
InitAllPaths ==
    /\ Init
    /\ (impl = "AI" /\ mode = "Teams" => players \in DelegatedRosters)

NextAllPaths ==
    \/ Next
    \/ \E reply \in Replies : ResponseParsed(reply)

SpecAllPaths == InitAllPaths /\ [][NextAllPaths]_vars

\* The application: every batch comes from a click on Generate, for an
\* unchanged roster, mode and configuration; the external call fails.
InitApp == Init /\ impl = "AI"

NextApp ==
    \/ \E n \in 0..MaxCount : PageGenerate(n)
    \/ SinglesStep
    \/ SinglesReturn
    \/ FetchRejects
    \/ HttpNotOk
    \/ BodyUnparsable
    \/ FallbackStep
    \/ FallbackReturn

SpecApp == InitApp /\ [][NextApp]_vars

\* The page before any click on Generate: an empty roster, the default
\* mode and sizes, no generator at work.
InitPage ==
    /\ impl = "AI"
    /\ players = << >>
    /\ mode = "Singles"
    /\ teamSize = 2
    /\ doubleSider = FALSE
    /\ groqApiKey = ""
    /\ InitSession

NextPage ==
    \/ \E name \in Inputs : addPlayer(name)
    \/ \E playerList \in Inputs : addPlayersFromList(playerList)
    \/ \E position \in 1..MaxPagePlayers : removePlayer(position)

SpecPage == InitPage /\ [][NextPage]_vars


\* ------------------------------------------- overlapping clicks on Generate
\* The button is disabled only by canGenerate (roster and team size), never
\* by a generation in flight, and every click builds its own generator, so
\* several handlers can be suspended at `await generator.generateMatches`.
\* Each is identified by its click; what its generator computes is left to
\* the other specifications.

\* Home.generateMatches up to its await.  A Singles generation never waits
\* for anything: its promise is already resolved, and the handler resumes
\* before any other event is served.  A Teams generation awaits fetch.
ClickGenerate(n) ==
    /\ impl = "AI" /\ calls < MaxCalls
    /\ \E validationError \in { validateInputs(n) } :
         IF validationError # Null
         THEN /\ error' = validationError
              /\ UNCHANGED << calls, pending, generatedMatches >>
         ELSE /\ error' = ""
              /\ calls' = calls + 1
              /\ \E batch \in { [ click |-> calls + 1, numberOfMatches |-> n ] } :
                   IF mode = "Singles"
                   THEN generatedMatches' = batch /\ UNCHANGED pending
                   ELSE pending' = pending \cup {batch}
                        /\ UNCHANGED generatedMatches
    /\ UNCHANGED << config, playCount, previousMatches, pc, numberOfMatches,
                    matches, rotationOffset, i, before, startCount, startHist,
                    generated, path, response, carried, pagePlayers >>

\* The external call of one suspended handler settles (in any order: each
\* handler awaits its own request); generateMatches resolves, through the
\* reply or the fallback, and the handler runs setGeneratedMatches(matches).
AwaitResumes(batch) ==
    /\ batch \in pending
    /\ pending' = pending \ {batch}
    /\ generatedMatches' = batch
    /\ UNCHANGED << config, playCount, previousMatches, pc, numberOfMatches,
                    matches, rotationOffset, i, before, startCount, startHist,
                    calls, generated, path, response, carried, pagePlayers,
                    error >>

InitClicks == Init /\ impl = "AI"

NextClicks ==
    \/ \E n \in 0..MaxCount : ClickGenerate(n)
    \/ \E batch \in pending : AwaitResumes(batch)

SpecClicks == InitClicks /\ [][NextClicks]_vars


\* ------------------------------------------- calls that run to completion
\* AIMatchGenerator sessions on every path, with the scheduling the runtime
\* gives them: a loop that can take a step takes it (the call runs to
\* completion on one thread), and the awaited external call does not stay
\* pending for ever: a reply ends the wait, and a request that gets none
\* fails.  Whether the caller calls again is left open.
MaxShortRoster == 3      \* the rosters of these sessions have 2..MaxShortRoster players

ShortRosters == { roster \in DelegatedRosters : Len(roster) <= MaxShortRoster }

InitTermination ==
    /\ Init
    /\ impl = "AI"
    /\ players \in ShortRosters

\* What a started call does by itself until it returns, the iterations of
\* the fallback loop aside.
Progress ==
    \/ SinglesStep
    \/ SinglesReturn
    \/ FetchRejects
    \/ HttpNotOk
    \/ BodyUnparsable
    \/ FallbackReturn

NextTermination ==
    \/ \E n \in 0..MaxSinglesCount : CallSingles(n)
    \/ \E n \in 0..MaxCount : CallTeams(n)
    \/ \E reply \in Replies : ResponseParsed(reply)
    \/ FallbackStep
    \/ Progress

\* Weak fairness of FallbackStep, spelt out: ENABLED <<FallbackStep>>_vars is
\* the condition of the fallback loop, and a step of the session is a
\* FallbackStep step exactly if it raises i in that loop.
FallbackLoopRuns ==
    \/ []<>(~(pc = "fallback" /\ i < numberOfMatches))
    \/ []<><<pc = "fallback" /\ i' = i + 1>>_vars

\* Weak fairness of LegacyTeamsStep, spelt out in the same way.
LegacyLoopRuns ==
    \/ []<>(~(pc = "legacy" /\ mode = "Teams" /\ i < numberOfMatches))
    \/ []<><<pc = "legacy" /\ mode = "Teams" /\ i' = i + 1>>_vars

SpecTermination ==
    /\ InitTermination /\ [][NextTermination]_vars
    /\ WF_vars(Progress) /\ FallbackLoopRuns


\* ------------------------------------------- long deterministic sessions
\* Teams sessions of either class on a valid configuration, without a
\* credential, whose calls ask for MaxRotation matches each: long enough for
\* every player to come round.  A loop that can take a step takes it, and
\* the external call, when made, fails.
MaxRotation == 5         \* matches asked for by each call of these sessions

InitRotation ==
    /\ impl \in {"AI", "Legacy"}
    /\ players \in (IF impl = "AI" THEN DelegatedRosters ELSE LegacyRosters)
    /\ mode = "Teams"
    /\ teamSize \in 1..MaxTeamSize
    /\ doubleSider \in BOOLEAN
    /\ Len(players) >= requiredPlayers
    /\ groqApiKey = ""
    /\ InitSession

\* What a started call of these sessions does besides its loop iterations.
RotationProgress ==
    \/ FetchRejects
    \/ HttpNotOk
    \/ FallbackReturn
    \/ LegacyReturn

NextRotation ==
    \/ CallTeams(MaxRotation)
    \/ CallLegacy(MaxRotation)
    \/ FallbackStep
    \/ LegacyTeamsStep
    \/ RotationProgress

SpecRotation ==
    /\ InitRotation /\ [][NextRotation]_vars
    /\ WF_vars(RotationProgress) /\ FallbackLoopRuns /\ LegacyLoopRuns

\* ============================================================ claims
\* requiredCount as the specification defines it: 2*teamSize, or
\* 2*teamSize + 1 with a double-sider.
RequiredCount == IF doubleSider THEN 2 * teamSize + 1 ELSE 2 * teamSize

\* The latest match of the running (or just returned) batch.
Latest == matches[Len(matches)]

\* A match of the deterministic Teams path has just been generated: before
\* holds the play counts it started from, playCount those it left.
DetTeamsMatch ==
    mode = "Teams" /\ path \in {"fallback", "legacy"} /\ matches # << >>

ValidTeams == teamSize >= 1 /\ Len(players) >= RequiredCount

\* Cyclic left-rotation of the roster by offset o, by index arithmetic.
LeftRotation(o) ==
    [ j \in 1..Len(players) |-> ((j - 1 + o) % Len(players)) + 1 ]

Spread ==
    LET counts == { playCount[p] : p \in PlayerIds }
    IN  (CHOOSE hi \in counts : \A c \in counts : c <= hi)
          - (CHOOSE lo \in counts : \A c \in counts : lo <= c)

DoubleSiderOnBoth(match) ==
    match.doubleSider # Undefined =>
        match.doubleSider \in Range(match.teamA) \cap Range(match.teamB)

\* C1 as stated: on the deterministic Teams path, for teamSize >= 1 and a
\* roster of at least requiredCount players, every match has
\* |teamA| = |teamB| = teamSize exactly, the double-sider counted inside the
\* teamSize, and the double-sider, when present, is on both teams.
C1_TeamsHaveTeamSize ==
    (DetTeamsMatch /\ ValidTeams) =>
        /\ Len(Latest.teamA) = teamSize
        /\ Len(Latest.teamB) = teamSize
        /\ DoubleSiderOnBoth(Latest)

\* C1 amended: on the deterministic Teams path, for teamSize >= 1 and a
\* roster of at least requiredCount players, every match has
\* |teamA| = |teamB| = teamSize with allowDoubleSider off and teamSize + 1
\* with it on: teamSize regular players per team and then the double-sider,
\* who is the last member of both teams.
C1_TeamsHaveTeamSizePlusDoubleSider ==
    (DetTeamsMatch /\ ValidTeams) =>
        LET extra == IF doubleSider THEN 1 ELSE 0
        IN  /\ Len(Latest.teamA) = teamSize + extra
            /\ Len(Latest.teamB) = teamSize + extra
            /\ (doubleSider <=> Latest.doubleSider # Undefined)
            /\ doubleSider =>
                 /\ Latest.teamA[teamSize + 1] = Latest.doubleSider
                 /\ Latest.teamB[teamSize + 1] = Latest.doubleSider
                 /\ Latest.doubleSider \notin
                      Range(SubSeq(Latest.teamA, 1, teamSize))
                        \cup Range(SubSeq(Latest.teamB, 1, teamSize))

C1_Witness ==
    /\ DetTeamsMatch /\ ValidTeams /\ impl = "AI"
    /\ doubleSider /\ teamSize = 2
    /\ Len(Latest.teamA) = 3 /\ Len(Latest.teamB) = 3

\* C2 as stated: for every Teams match of the deterministic path,
\* playersPlaying and playersOut are disjoint, their union is the full
\* roster, playersPlaying lists each participant once, and
\* |playersPlaying| = requiredCount.
C2_RosterPartition ==
    DetTeamsMatch =>
        /\ Range(Latest.playersPlaying) \cap Range(Latest.playersOut) = {}
        /\ Range(Latest.playersPlaying) \cup Range(Latest.playersOut) = PlayerIds
        /\ Cardinality(Range(Latest.playersPlaying)) = Len(Latest.playersPlaying)
        /\ Len(Latest.playersPlaying) = RequiredCount

\* C3: each deterministic Teams match changes play counts by exactly +2 for
\* its double-sider, +1 for every other participant and +0 for every
\* sitting-out player; with allowDoubleSider off every participant gets +1.
C3_PlayCountDelta ==
    DetTeamsMatch =>
        /\ \A p \in PlayerIds :
             playCount[p] - before[p] =
                 IF p = Latest.doubleSider THEN 2
                 ELSE IF p \in Range(Latest.playersPlaying) THEN 1
                 ELSE 0
        /\ (~doubleSider => Latest.doubleSider = Undefined)
        /\ (Latest.doubleSider # Undefined =>
              Latest.doubleSider \in Range(Latest.playersPlaying))

\* The scenario of the specification: 4 players of equal skill, teamSize 2,
\* no double-sider, one match: nobody sits out and every count is 1.
C3_Witness ==
    /\ DetTeamsMatch /\ impl = "AI" /\ pc = "returned"
    /\ Len(players) = 4 /\ \A p \in PlayerIds : players[p] = players[1]
    /\ teamSize = 2 /\ ~doubleSider /\ numberOfMatches = 1 /\ calls = 1
    /\ Latest.playersOut = << >>
    /\ \A p \in PlayerIds : playCount[p] = 1

\* C4: on the deterministic Teams path with rosterSize > requiredCount, after
\* any number of matches over any number of calls, max(playCount) -
\* min(playCount) never exceeds 2, with or without a double-sider.
C4_SpreadAtMostTwo ==
    (mode = "Teams" /\ Len(players) > RequiredCount) => Spread <= 2

C4_Witness ==
    /\ mode = "Teams" /\ Len(players) > RequiredCount /\ teamSize >= 1
    /\ doubleSider /\ calls = 2 /\ generated >= 3
    /\ Spread = 2

\* C5: in Singles mode one generateMatches call returns sequences that are
\* the cyclic left-rotations of the roster by offsets 0, 1, 2, ... in order:
\* the first N (N the roster size) are pairwise distinct, match N + 1 is the
\* original order again, and every play count has grown by the number of
\* matches (by N for a call of N matches).
C5_SinglesRotations ==
    (mode = "Singles" /\ pc = "returned") =>
        /\ Len(matches) = numberOfMatches
        /\ \A k \in 1..Len(matches) :
             matches[k].playerSequence = LeftRotation((k - 1) % Len(players))
        /\ \A k, l \in 1..Min(Len(matches), Len(players)) :
             k # l => matches[k].playerSequence # matches[l].playerSequence
        /\ (Len(matches) > Len(players) =>
              matches[Len(players) + 1].playerSequence = Roster)
        /\ \A p \in PlayerIds : playCount[p] = startCount[p] + numberOfMatches

\* The scenario of the specification: 3 players, 3 matches.
C5_Witness ==
    /\ mode = "Singles" /\ pc = "returned" /\ impl = "AI"
    /\ Len(players) = 3 /\ numberOfMatches = 3
    /\ matches[2].playerSequence = << 2, 3, 1 >>
    /\ matches[3].playerSequence = << 3, 1, 2 >>
    /\ \A p \in PlayerIds : playCount[p] = startCount[p] + 3

\* C6 as stated: the Singles rotation offset is session state, so the k-th
\* match generated on a session, counted over all its calls, is the roster
\* rotated left by (k - 1) mod rosterSize.
C6_OffsetIsSessionState ==
    (mode = "Singles" /\ matches # << >>) =>
        Latest.playerSequence = LeftRotation((generated - 1) % Len(players))

\* C7 as stated: every generateMatches(count) call that succeeds returns
\* exactly count matches, whichever path produced them.
C7_ReturnsExactlyCount ==
    (pc = "returned" /\ numberOfMatches >= 1) => Len(matches) = numberOfMatches

\* C8 as stated: in Teams mode with a roster smaller than requiredCount,
\* generateMatches fails before any play count or history entry changes.
C8_InsufficientPlayersRejected ==
    (impl = "AI" /\ mode = "Teams" /\ teamSize >= 1
        /\ Len(players) < RequiredCount) =>
        /\ \A p \in PlayerIds : playCount[p] = 0
        /\ previousMatches = << >>
        /\ matches = << >>

\* C9 as stated: a session with a non-positive teamSize (Teams) or a call
\* with a non-positive matchCount is rejected: it changes no play count and
\* no history entry, and it never returns a match list as a success.
C9_InvalidConfigurationRejected ==
    (calls > 0 /\ ((mode = "Teams" /\ teamSize < 1) \/ numberOfMatches < 1)) =>
        /\ pc # "returned"
        /\ playCount = startCount
        /\ Len(previousMatches) = startHist

\* C10: in Teams mode with a valid roster and configuration, once the
\* external call has failed (transport error, HTTP status, unparsable body,
\* or an entry of the reply that cannot be read) the call is not rejected:
\* it runs the fallback loop and returns exactly its matches, each with the
\* team sizes, the roster partition and the play-count changes of the
\* deterministic path.
C10_FailureFallsBack ==
    (path = "fallback" /\ ValidTeams) =>
        /\ pc \in {"fallback", "returned"}
        /\ Len(matches) = i
        /\ (pc = "returned" => Len(matches) = numberOfMatches)
        /\ \A k \in 1..Len(matches) :
             /\ matches[k].id = k
             /\ matches[k] = previousMatches[Len(previousMatches) - Len(matches) + k]
             /\ Len(matches[k].teamA) = teamSize + (IF doubleSider THEN 1 ELSE 0)
             /\ Len(matches[k].teamB) = teamSize + (IF doubleSider THEN 1 ELSE 0)
             /\ DoubleSiderOnBoth(matches[k])
             /\ Range(matches[k].playersPlaying) \cap Range(matches[k].playersOut) = {}
             /\ Range(matches[k].playersPlaying) \cup Range(matches[k].playersOut)
                  = PlayerIds
             /\ Len(matches[k].playersPlaying) = RequiredCount
             /\ matches[k].tossWinner \in {"A", "B"}
        /\ (matches # << >> =>
              \A p \in PlayerIds :
                 playCount[p] - before[p] =
                     IF p = Latest.doubleSider THEN 2
                     ELSE IF p \in Range(Latest.playersPlaying) THEN 1
                     ELSE 0)

\* A reply whose second entry cannot be read: the fallback batch is returned
\* after the first entry of the reply was already recorded.
C10_Witness ==
    /\ path = "fallback" /\ ValidTeams /\ pc = "returned"
    /\ numberOfMatches = 2 /\ Len(matches) = 2
    /\ Len(previousMatches) = startHist + 3

\* The running call, of a valid session and for a positive number of
\* matches, has returned the matches parsed from the reply, as many as asked.
Accepted ==
    /\ pc = "returned" /\ path = "delegated"
    /\ ValidTeams /\ numberOfMatches >= 1 /\ Len(matches) = numberOfMatches

\* The ids one entry of a reply refers to.
ReferencedIds(matchData) ==
    IF ~matchData.hasTeams THEN {}
    ELSE Range(matchData.teamA) \cup Range(matchData.teamB)
           \cup Range(matchData.playersOut)
           \cup (IF matchData.doubleSider # Undefined
                 THEN {matchData.doubleSider} ELSE {})

\* C11 as stated: a reply that refers to an id of no roster player (in
\* teamA, teamB, doubleSider or playersOut of any entry) is never accepted:
\* the batch a call returns from the delegated path comes from a reply all
\* of whose ids are roster ids.
C11_UnknownIdRejected ==
    Accepted =>
        \A k \in 1..Len(response) : ReferencedIds(response[k]) \subseteq PlayerIds

\* C12 as stated: when the delegated path fails, the fallback starts from the
\* play counts and the history the call started with, and while it runs the
\* history holds, after the call's start, only the matches of the fallback.
C12_FallbackStartsClean ==
    (path = "fallback" /\ ValidTeams /\ numberOfMatches >= 1) =>
        /\ Len(previousMatches) = startHist + Len(matches)
        /\ (Len(matches) = 0 => playCount = startCount)

\* The play-count change the specification prescribes for one match.
ExpectedDelta(match, p) ==
    IF match.doubleSider # Undefined /\ p = match.doubleSider THEN 2
    ELSE IF p \in Range(match.teamA) \cup Range(match.teamB) THEN 1
    ELSE 0

RECURSIVE SumExpectedDelta(_, _)
SumExpectedDelta(ms, p) ==
    IF ms = << >> THEN 0
    ELSE ExpectedDelta(Head(ms), p) + SumExpectedDelta(Tail(ms), p)

\* C13 as stated: after an accepted reply every play count has grown by the
\* sum, over the parsed matches, of 2 where the player is the match's
\* double-sider, 1 where the player is otherwise on teamA or teamB, and 0
\* elsewhere, whether or not the double-sider is listed inside the teams and
\* whether or not the session has allowDoubleSider on.
C13_DelegatedBookkeeping ==
    Accepted =>
        \A p \in PlayerIds :
            playCount[p] - startCount[p] = SumExpectedDelta(matches, p)

\* C14 as stated: every match returned from the delegated path has teams of
\* teamSize members (one more when it has a double-sider, who is then on
\* both teams, as on the deterministic path), and playersPlaying and
\* playersOut are disjoint with the full roster as their union.
C14_DelegatedMatchesWellFormed ==
    Accepted =>
        \A k \in 1..Len(matches) :
            LET extra == IF matches[k].doubleSider # Undefined THEN 1 ELSE 0
            IN  /\ Len(matches[k].teamA) = teamSize + extra
                /\ Len(matches[k].teamB) = teamSize + extra
                /\ DoubleSiderOnBoth(matches[k])
                /\ (matches[k].doubleSider # Undefined => doubleSider)
                /\ Range(matches[k].playersPlaying)
                     \cap Range(matches[k].playersOut) = {}
                /\ Range(matches[k].playersPlaying)
                     \cup Range(matches[k].playersOut) = PlayerIds

\* C15 as stated: every Teams match a call returns, from the delegated path
\* as from the deterministic one, has tossWinner "A" or "B".
C15_TossWinnerIsAOrB ==
    (pc = "returned" /\ mode = "Teams" /\ ValidTeams /\ numberOfMatches >= 1) =>
        \A k \in 1..Len(matches) : matches[k].tossWinner \in {"A", "B"}

\* C16 as stated: the k-th match a call of AIMatchGenerator returns has id
\* k, on the Singles, fallback and delegated paths alike, every call
\* numbering from 1.
C16_IdsArePositions ==
    (pc = "returned" /\ impl = "AI" /\ numberOfMatches >= 1) =>
        \A k \in 1..Len(matches) : matches[k].id = k

\* C17: every Singles match, of either class, has a playerSequence that is
\* a permutation of the full roster, playersPlaying equal to it, no
\* playersOut, and no teamA, teamB, doubleSider or tossWinner field; it
\* raises every play count by exactly 1; and a Singles session never awaits
\* the external service nor runs the Teams fallback.
C17_SinglesMatches ==
    mode = "Singles" =>
        /\ pc \in {"idle", "singles", "legacy", "returned"}
        /\ path \in {"none", "singles", "legacy"}
        /\ response = << >>
        /\ \A k \in 1..Len(matches) :
             /\ Len(matches[k].playerSequence) = Len(players)
             /\ Range(matches[k].playerSequence) = PlayerIds
             /\ matches[k].playersPlaying = matches[k].playerSequence
             /\ matches[k].playersOut = << >>
             /\ DOMAIN matches[k]
                  \cap {"teamA", "teamB", "doubleSider", "tossWinner"} = {}
        /\ (matches # << >> =>
              \A p \in PlayerIds : playCount[p] = before[p] + 1)
        /\ \A p \in PlayerIds : playCount[p] = generated

\* The second match of the second call on a roster of 3: everyone plays, in
\* the order 2, 3, 1, and every count is the number of matches so far.
C17_Witness ==
    /\ mode = "Singles" /\ impl = "AI" /\ pc = "returned"
    /\ Len(players) = 3 /\ calls = 2 /\ Len(matches) = 2 /\ generated = 4
    /\ Latest.playersPlaying = << 2, 3, 1 >>
    /\ Latest.playersOut = << >>
    /\ playCount = << 4, 4, 4 >>

\* C18: on every path and in both classes the play-count map has exactly
\* one entry per roster player, every entry is 0 until the first call, and
\* no step ever lowers an entry.
C18_PlayCountMap ==
    /\ [](/\ DOMAIN playCount = PlayerIds
          /\ (calls = 0 => \A p \in PlayerIds : playCount[p] = 0)
          /\ \A p \in PlayerIds : playCount[p] >= 0)
    /\ [][\A p \in PlayerIds : playCount'[p] >= playCount[p]]_vars

\* A session whose first call consumed a reply and whose second call ran the
\* fallback: a player's count grew in both calls.
C18_Witness ==
    /\ impl = "AI" /\ mode = "Teams" /\ calls = 2 /\ pc = "returned"
    /\ path = "fallback" /\ response # << >>
    /\ Len(players) > RequiredCount /\ teamSize >= 1
    /\ \E p \in PlayerIds : startCount[p] > 0 /\ playCount[p] > startCount[p]
    /\ \E p \in PlayerIds : playCount[p] = startCount[p]

\* C19 as stated: the second Generate action of the application, for an
\* unchanged roster, mode and configuration, runs on the session of the
\* first and so starts from the play counts the first batch left: nobody in
\* its first Teams match had played more, in the first batch, than somebody
\* that match leaves out.
C19_GenerateKeepsSession ==
    (calls = 2 /\ mode = "Teams" /\ path = "fallback" /\ Len(matches) = 1) =>
        \A p \in Range(Latest.playersPlaying), q \in Range(Latest.playersOut) :
            carried[p] <= carried[q]

\* C20 as stated: after any sequence of addPlayer, addPlayersFromList and
\* removePlayer actions no two names of the page's roster are equal
\* ignoring case.
C20_NamesUniqueIgnoringCase ==
    \A j, k \in 1..Len(pagePlayers) :
        j # k => toLowerCase(pagePlayers[j]) # toLowerCase(pagePlayers[k])

\* C21: in the application a generator is constructed and invoked only
\* when players.length >= 2, numberOfMatches >= 1 and, in Teams mode,
\* teamSize >= 1 and players.length >= requiredCount; and a step that shows
\* an error message changes nothing but the message: no generator state,
\* and not the matches displayed.
C21_PageValidatesBeforeGenerating ==
    /\ [](calls > 0 =>
            /\ Len(players) >= 2
            /\ numberOfMatches >= 1
            /\ (mode = "Teams" => teamSize >= 1 /\ Len(players) >= RequiredCount))
    /\ [][(error' # error /\ error' # "") =>
            UNCHANGED << config, clicks, playCount, previousMatches, pc, numberOfMatches,
                         matches, rotationOffset, i, before, startCount,
                         startHist, calls, generated, path, response, carried,
                         pagePlayers >>]_vars

\* A click with numberOfMatches = 0 after a batch was displayed: the message
\* is shown and the batch is still there.
C21_Witness ==
    /\ error = "Number of matches must be at least 1"
    /\ calls = 1 /\ pc = "returned" /\ mode = "Teams"
    /\ numberOfMatches = 2 /\ Len(matches) = 2

\* C22: at every deterministic Teams match, of either class, nobody sits
\* out while somebody with a strictly higher play count plays: with the
\* counts before the match, every selected player's count is at most every
\* sitting-out player's count.
C22_MinimumCountFirst ==
    DetTeamsMatch =>
        \A p \in Range(Latest.playersPlaying), q \in Range(Latest.playersOut) :
            before[p] <= before[q]

\* A legacy match generated when the counts already differed: somebody who
\* had played sits out, somebody who had played less plays.
C22_Witness ==
    /\ DetTeamsMatch /\ ValidTeams /\ impl = "Legacy"
    /\ \E p \in Range(Latest.playersPlaying), q \in Range(Latest.playersOut) :
          before[p] < before[q]

\* A fallback match of AIMatchGenerator has just been generated.
FallbackMatch == impl = "AI" /\ path = "fallback" /\ matches # << >>

\* |skill - mean roster skill|, times the roster size.
DistanceFromMean(p) ==
    LET scaled == Len(players) * players[p]
        total == SeqSum(players)
    IN  IF scaled >= total THEN scaled - total ELSE total - scaled

\* q comes before p in the order the specification gives: ascending play
\* count, then ascending distance from the mean skill, then roster order.
ComesBefore(q, p, count) ==
    \/ count[q] < count[p]
    \/ /\ count[q] = count[p]
       /\ \/ DistanceFromMean(q) < DistanceFromMean(p)
          \/ (DistanceFromMean(q) = DistanceFromMean(p) /\ q < p)

PlaceOf(p, count) ==
    Cardinality({ q \in PlayerIds : ComesBefore(q, p, count) }) + 1

\* C23: at every fallback match, for every requiredCount >= 0, the players
\* selected are exactly the first min(requiredCount, rosterSize) of the whole
\* roster ordered by ascending play count, then ascending distance of skill
\* from the roster mean, then roster order; the players not selected keep
\* their play counts.
C23_SelectionOrder ==
    FallbackMatch =>
        /\ Len(Latest.playersPlaying) = Min(RequiredCount, Len(players))
        /\ \A r \in 1..Len(Latest.playersPlaying) :
             PlaceOf(Latest.playersPlaying[r], before) = r
        /\ \A p \in PlayerIds \ Range(Latest.playersPlaying) :
             playCount[p] = before[p]

\* All counts equal, and the distance from the mean skill decides: the
\* first player of the roster is not selected, a later one is.
C23_Witness ==
    /\ FallbackMatch /\ ValidTeams
    /\ \A p \in PlayerIds : before[p] = before[1]
    /\ 1 \notin Range(Latest.playersPlaying)
    /\ Latest.playersPlaying # << >>

\* The position of a player in a sequence without repetition.
PositionIn(seq, p) == CHOOSE r \in 1..Len(seq) : seq[r] = p

\* C24 as stated: with allowDoubleSider on, the double-sider of every
\* deterministic match, of either class, is a selected player of maximal
\* skill among the selected players, and no selected player of the same
\* skill comes before it in selection order.
C24_DoubleSiderIsFirstMaxSkill ==
    (DetTeamsMatch /\ ValidTeams /\ doubleSider) =>
        /\ Latest.doubleSider \in Range(Latest.playersPlaying)
        /\ \A p \in Range(Latest.playersPlaying) :
             /\ players[p] <= players[Latest.doubleSider]
             /\ (players[p] = players[Latest.doubleSider] =>
                   PositionIn(Latest.playersPlaying, Latest.doubleSider)
                     <= PositionIn(Latest.playersPlaying, p))

\* The pool of a match: its selected players without its double-sider.
Pool(match) == Range(match.playersPlaying) \ {match.doubleSider}

\* The place of p in the pool ordered by descending skill, players of equal
\* skill in selection order.
PoolPlace(match, p) ==
    Cardinality({ q \in Pool(match) :
        \/ players[q] > players[p]
        \/ /\ players[q] = players[p]
           /\ PositionIn(match.playersPlaying, q) < PositionIn(match.playersPlaying, p) })
      + 1

\* C25: when the pool of a fallback match has exactly 2 * teamSize players,
\* the k-th regular member of teamA is the player at place 2k - 1 of the
\* pool in descending-skill order and the k-th regular member of teamB the
\* player at place 2k: the teams alternate and neither fills up early.
C25_AlternatingPartition ==
    (FallbackMatch /\ teamSize >= 1
        /\ Cardinality(Pool(Latest)) = 2 * teamSize) =>
        /\ Len(Latest.teamA) >= teamSize /\ Len(Latest.teamB) >= teamSize
        /\ \A k \in 1..teamSize :
             /\ Latest.teamA[k] \in Pool(Latest)
             /\ Latest.teamB[k] \in Pool(Latest)
             /\ PoolPlace(Latest, Latest.teamA[k]) = (2 * k) - 1
             /\ PoolPlace(Latest, Latest.teamB[k]) = 2 * k

\* Teams of 2 around a double-sider, the pool holding three skill levels:
\* the best to teamA, the next to teamB, the next to teamA.
C25_Witness ==
    /\ FallbackMatch /\ teamSize = 2 /\ doubleSider
    /\ Cardinality(Pool(Latest)) = 4
    /\ players[Latest.teamA[1]] > players[Latest.teamB[1]]
    /\ players[Latest.teamB[1]] > players[Latest.teamA[2]]

RECURSIVE SkillSum(_)
SkillSum(team) ==
    IF team = << >> THEN 0 ELSE players[Head(team)] + SkillSum(Tail(team))

\* The regular members of a team: the team without the double-sider.
Regulars(match, team) ==
    LET NotDoubleSider(p) == p # match.doubleSider
    IN  SelectSeq(team, NotDoubleSider)

SkillGap(match) ==
    SkillSum(Regulars(match, match.teamA)) - SkillSum(Regulars(match, match.teamB))

\* C26: for every fallback match on a sufficient roster the skill sums of
\* the two teams, the double-sider left out, satisfy
\* 0 <= sum(teamA) - sum(teamB) <= highest - lowest skill among the match's
\* players other than the double-sider.
C26_SkillGapBounded ==
    (FallbackMatch /\ ValidTeams) =>
        /\ 0 <= SkillGap(Latest)
        /\ \E hi, lo \in Pool(Latest) :
             /\ \A p \in Pool(Latest) : players[lo] <= players[p] /\ players[p] <= players[hi]
             /\ SkillGap(Latest) <= players[hi] - players[lo]

\* Teams of 2 whose pool has skills 3, 2, 2, 1: teamA gets 3 + 2, teamB
\* 2 + 1, the gap is the whole range.
C26_Witness ==
    /\ FallbackMatch /\ ValidTeams /\ teamSize = 2
    /\ SkillSum(Regulars(Latest, Latest.teamA)) = 5
    /\ SkillSum(Regulars(Latest, Latest.teamB)) = 3
    /\ players[Latest.teamA[2]] = players[Latest.teamB[1]]

\* What the roster, the configuration and the play counts determine of a
\* Teams match on a sufficient roster: the selection, the double-sider, the
\* two teams and the players left out.
DeterminedSelection(count) ==
    [ r \in 1..Min(RequiredCount, Len(players)) |->
        CHOOSE p \in PlayerIds : PlaceOf(p, count) = r ]

DeterminedDoubleSider(selection) ==
    IF ~doubleSider \/ selection = << >> THEN Undefined
    ELSE selection[CHOOSE r \in 1..Len(selection) :
            /\ \A t \in 1..Len(selection) : players[selection[t]] <= players[selection[r]]
            /\ \A t \in 1..(r - 1) : players[selection[t]] < players[selection[r]]]

DeterminedTeam(selection, deciding, first) ==
    LET others == Range(selection) \ {deciding}
        Place(p) ==
            Cardinality({ q \in others :
                \/ players[q] > players[p]
                \/ /\ players[q] = players[p]
                   /\ PositionIn(selection, q) < PositionIn(selection, p) }) + 1
        regulars == [ k \in 1..teamSize |->
                        CHOOSE p \in others : Place(p) = (2 * (k - 1)) + first ]
    IN  IF deciding = Undefined THEN regulars ELSE Append(regulars, deciding)

DeterminedOut(selection) ==
    LET Left(p) == p \notin Range(selection)
    IN  SelectSeq([ k \in 1..Len(players) |-> k ], Left)

\* C27: on the fallback path with a sufficient roster, playersPlaying,
\* teamA, teamB, doubleSider and playersOut of every match are a function
\* of the roster, the configuration and the play counts before the match,
\* whatever the history and the toss: two sessions that agree on these
\* produce the same five fields, and tossWinner alone is drawn.
C27_DeterminedByRosterAndCounts ==
    (FallbackMatch /\ ValidTeams) =>
        LET selection == DeterminedSelection(before)
            deciding == DeterminedDoubleSider(selection)
        IN  /\ Latest.playersPlaying = selection
            /\ Latest.doubleSider = deciding
            /\ Latest.teamA = DeterminedTeam(selection, deciding, 1)
            /\ Latest.teamB = DeterminedTeam(selection, deciding, 2)
            /\ Latest.playersOut = DeterminedOut(selection)
            /\ Latest.tossWinner \in {"A", "B"}

\* The second call of a session, its match drawn with the toss to B, after a
\* first batch of two matches drawn with the toss to A.
C27_Witness ==
    /\ FallbackMatch /\ ValidTeams /\ calls = 2 /\ doubleSider
    /\ Len(players) > RequiredCount
    /\ Len(previousMatches) = 3
    /\ previousMatches[1].tossWinner = "A"
    /\ Latest.tossWinner = "B"
    /\ Latest.playersPlaying # previousMatches[1].playersPlaying

\* C28: from the invocation of generateMatches in Teams mode until the
\* answer or the failure of the external call, play counts and history are
\* those of the call's start: the step that builds the request and starts
\* to wait changes neither, and nothing runs while the call waits.
C28_AwaitingChangesNothing ==
    /\ [](pc = "awaiting" =>
            /\ playCount = startCount
            /\ Len(previousMatches) = startHist)
    /\ [][pc' = "awaiting" =>
            /\ playCount' = playCount
            /\ previousMatches' = previousMatches]_vars

\* The second call of a session is waiting: the counts and the history the
\* first call left are in place.
C28_Witness ==
    /\ pc = "awaiting" /\ calls = 2 /\ ValidTeams
    /\ Len(previousMatches) = 2
    /\ \E p \in PlayerIds : playCount[p] > 0
    /\ playCount = startCount

\* C29 as stated: the history of an AIMatchGenerator session lists the
\* matches returned to the caller, in generation order: when a call
\* returns, the history has grown, since the call started, by exactly the
\* matches returned, in their order, so its last entries are the most
\* recently returned matches and the next request summarises those.
C29_HistoryIsReturnedMatches ==
    (impl = "AI" /\ pc = "returned" /\ numberOfMatches >= 1
        /\ (mode = "Teams" => ValidTeams)) =>
        /\ Len(previousMatches) = startHist + Len(matches)
        /\ \A k \in 1..Len(matches) : previousMatches[startHist + k] = matches[k]

\* C30: on the deterministic Teams path, of either class, with
\* allowDoubleSider off and rosterSize > 2 * teamSize, the spread
\* max(playCount) - min(playCount) is at most 1 after every match.
C30_SpreadAtMostOneWithoutDoubleSider ==
    (mode = "Teams" /\ ~doubleSider /\ Len(players) > 2 * teamSize) =>
        Spread <= 1

\* Three matches over two calls with players sitting out: the counts differ
\* by one.
C30_Witness ==
    /\ mode = "Teams" /\ ~doubleSider /\ teamSize >= 1
    /\ Len(players) > 2 * teamSize
    /\ calls = 2 /\ generated = 3 /\ pc = "returned"
    /\ Spread = 1

\* A sequence that lists no element twice.
NoRepeat(s) == Cardinality(Range(s)) = Len(s)

\* C33: in every deterministic Teams match on a sufficient roster (either
\* class), the players on teamA or teamB are exactly playersPlaying, no team
\* lists a player twice, and the teams share exactly the double-sider when
\* allowDoubleSider is on and nobody when it is off.
C33_TeamsCoverPlayersPlaying ==
    (DetTeamsMatch /\ ValidTeams) =>
        /\ Range(Latest.teamA) \cup Range(Latest.teamB) = Range(Latest.playersPlaying)
        /\ NoRepeat(Latest.teamA) /\ NoRepeat(Latest.teamB)
        /\ doubleSider => Latest.doubleSider \in Range(Latest.playersPlaying)
        /\ Range(Latest.teamA) \cap Range(Latest.teamB)
               = (IF doubleSider THEN {Latest.doubleSider} ELSE {})

\* A legacy match with a double-sider, generated after an earlier one.
C33_Witness ==
    /\ DetTeamsMatch /\ ValidTeams /\ impl = "Legacy" /\ doubleSider
    /\ generated >= 2
    /\ Latest.doubleSider \in Range(Latest.teamA) \cap Range(Latest.teamB)

\* What one history match contributes to the play count of player p: one
\* for being in playersPlaying, one more for being its recorded double-sider.
HistoryShare(m, p) ==
    (IF p \in Range(m.playersPlaying) THEN 1 ELSE 0)
    + (IF "doubleSider" \in DOMAIN m /\ m.doubleSider = p THEN 1 ELSE 0)

\* C32: on an AIMatchGenerator session, on any path, after a call that
\* returned the requested number of matches on a valid configuration, each
\* player's play count equals the number of history matches whose
\* playersPlaying contains the player plus the number of history matches
\* that record the player as double-sider.
C32_PlayCountMatchesHistory ==
    (/\ impl = "AI" /\ pc = "returned"
     /\ numberOfMatches >= 1 /\ Len(matches) = numberOfMatches
     /\ mode = "Teams" => ValidTeams) =>
        \A p \in PlayerIds :
            playCount[p] = SeqSum([ k \in 1..Len(previousMatches) |->
                                      HistoryShare(previousMatches[k], p) ])

\* Two Teams matches with the same playersPlaying, teams, double-sider and
\* playersOut.
SameTeamsMatch(a, b) ==
    /\ a.playersPlaying = b.playersPlaying
    /\ a.teamA = b.teamA /\ a.teamB = b.teamB
    /\ a.doubleSider = b.doubleSider
    /\ a.playersOut = b.playersOut

\* C34: the fallback refines the legacy MatchGenerator.  Every match a
\* fallback step produces, with the play counts it leaves, is one that the
\* legacy generateTeamsMatch produces from the same roster, configuration
\* and counts under some outcome of its tie-break and shuffle; a Singles
\* step produces the match and counts of the legacy generateSinglesMatch.
C34_FallbackRefinesLegacy ==
    [][ /\ (impl = "AI" /\ pc = "fallback" /\ i' = i + 1) =>
              \E selectedPlayers \in LegacySelections(requiredPlayers) :
                /\ selectedPlayers = Latest'.playersPlaying
                /\ \E shuffledPlayers \in shuffleArray(selectedPlayers) :
                     LET legacy == generateTeamsMatch(i + 1, selectedPlayers,
                                       shuffledPlayers, Latest'.tossWinner)
                     IN  /\ SameTeamsMatch(Latest', legacy)
                         /\ playCount' = UpdatePlayCount(playCount, selectedPlayers,
                                                         legacy.doubleSider)
        /\ (impl = "AI" /\ pc = "singles" /\ i' = i + 1) =>
              /\ Latest'.playerSequence = rotateArray(Roster, rotationOffset)
              /\ Latest'.playersPlaying = Latest'.playerSequence
              /\ Latest'.playersOut = << >>
              /\ playCount' = [ p \in DOMAIN playCount |-> playCount[p] + 1 ]
      ]_vars

\* C34 on configurations the specification accepts (teamSize >= 1 and a
\* roster of at least requiredCount in Teams mode).
C34_RefinesLegacyOnValidTeams ==
    [][ (mode = "Teams" => ValidTeams) =>
          /\ (impl = "AI" /\ pc = "fallback" /\ i' = i + 1) =>
                \E selectedPlayers \in LegacySelections(requiredPlayers) :
                  /\ selectedPlayers = Latest'.playersPlaying
                  /\ \E shuffledPlayers \in shuffleArray(selectedPlayers) :
                       LET legacy == generateTeamsMatch(i + 1, selectedPlayers,
                                         shuffledPlayers, Latest'.tossWinner)
                       IN  /\ SameTeamsMatch(Latest', legacy)
                           /\ playCount' = UpdatePlayCount(playCount, selectedPlayers,
                                                           legacy.doubleSider)
          /\ (impl = "AI" /\ pc = "singles" /\ i' = i + 1) =>
                /\ Latest'.playerSequence = rotateArray(Roster, rotationOffset)
                /\ Latest'.playersPlaying = Latest'.playerSequence
                /\ Latest'.playersOut = << >>
                /\ playCount' = [ p \in DOMAIN playCount |-> playCount[p] + 1 ]
      ]_vars

\* C35: once every pending generation has completed, the matches displayed
\* are those of the most recently started generation.
C35_LatestGenerationDisplayed ==
    (calls >= 1 /\ pending = {}) => generatedMatches.click = calls

\* C36: every generateMatches(count) call eventually completes.  A started
\* call (in the Singles loop, awaiting the external call, or in the fallback
\* loop) leads to a returned match list, never to a pending or rejected
\* call; and a call returned by the Singles or fallback loop ran exactly
\* count iterations and returns count matches.
C36_CallCompletes ==
    /\ [](pc \in {"idle", "singles", "awaiting", "fallback", "returned"})
    /\ []((pc = "returned" /\ path \in {"singles", "fallback"}) =>
             (i = numberOfMatches /\ Len(matches) = numberOfMatches))
    /\ (pc \in {"singles", "awaiting", "fallback"}) ~> (pc = "returned")

\* The second call of a session returned from the fallback loop, after its
\* external call failed, with the matches asked for.
C36_Witness ==
    /\ pc = "returned" /\ path = "fallback" /\ calls = 2
    /\ numberOfMatches = MaxCount /\ Len(matches) = MaxCount

\* C31: no player is starved.  On a session of deterministic Teams matches
\* with a valid configuration (either class), a player who sits out a match
\* while the call still has Len(players) - 1 matches to generate plays in a
\* later match, whatever the tie-breaks, shuffles and tosses are.
C31_NoPlayerStarved ==
    \A p \in 1..MaxPlayers :
        (/\ DetTeamsMatch /\ pc \in {"fallback", "legacy"}
         /\ p \in Range(Latest.playersOut)
         /\ numberOfMatches - i >= Len(players) - 1)
          ~> (DetTeamsMatch /\ p \in Range(Latest.playersPlaying))

\* On a roster of 5 with teams of 1, the player who sat out the first two
\* matches of the call plays in the third.
C31_Witness ==
    /\ impl = "AI" /\ path = "fallback" /\ Len(players) = 5 /\ Len(matches) = 3
    /\ \E p \in PlayerIds :
         /\ p \in Range(matches[1].playersOut)
         /\ p \in Range(matches[2].playersOut)
         /\ p \in Range(matches[3].playersPlaying)

=============================================================================
